---- MODULE Spec2Model ----
(***************************************************************************)
(* Model of src/hashing-message-authentication-code-algorithm.py: the HMAC *)
(* class (construction, update, copy, _current, digest, hexdigest), the    *)
(* module-level new() and the one-shot digest().                           *)
(*                                                                         *)
(* Hash objects live in a heap and are held by reference, as in Python:    *)
(* a session's inner and outer are references, copy() of a hash object     *)
(* allocates a new one, and an object no session or thread refers to is    *)
(* reclaimed.                                                              *)
(***************************************************************************)
EXTENDS Integers, Sequences, FiniteSets, Bags, TLC

(***************************************************************************)
(* Bounds of the model.                                                    *)
(***************************************************************************)
\* total number of message bytes fed to one session (initial msg + updates)
MaxFed == 2

(***************************************************************************)
(* Program constants.                                                      *)
(***************************************************************************)
\* HMAC.blocksize, the class default (line 24)
blocksize == 64
\* the smallest declared block_size that is accepted (line 97)
MinBlockSize == 16
\* the byte the outer key pad is XORed with (line 15)
opad == 92
\* the byte the inner key pad is XORed with (line 16)
ipad == 54

Byte == 0..255

(***************************************************************************)
(* Bytes helpers.                                                          *)
(***************************************************************************)
RECURSIVE XorBits(_, _, _)
XorBits(a, b, n) ==
    IF n = 0 THEN 0
    ELSE ((a + b) % 2) + 2 * XorBits(a \div 2, b \div 2, n - 1)

\* x ^ y on bytes
Xor(x, y) == XorBits(x, y, 8)

\* trans_5C = bytes((x ^ 0x5C) for x in range(256))
trans_5C == [x \in Byte |-> Xor(x, opad)]
\* trans_36 = bytes((x ^ 0x36) for x in range(256))
trans_36 == [x \in Byte |-> Xor(x, ipad)]

\* bytes.translate(table)
translate(b, table) == [i \in 1..Len(b) |-> table[b[i]]]

Zeros(n) == [i \in 1..n |-> 0]

\* bytes.ljust(width, b'\0'): pads on the right, never truncates
ljust(b, width) == IF Len(b) >= width THEN b ELSE b \o Zeros(width - Len(b))

\* b'\x00' * n: the empty byte string when n <= 0
ZeroTimes(n) == IF n <= 0 THEN <<>> ELSE Zeros(n)

(***************************************************************************)
(* The hash capability, an external collaborator (hashlib).  A hash object *)
(* holds a running state, which update() folds bytes into, one after the   *)
(* other, and which digest() turns into digest_size bytes without changing *)
(* it.  The capabilities differ in what they declare: "A" is an ordinary   *)
(* hash, "B" declares a block_size below 16, "C" declares none, "D" has a  *)
(* digest longer than its block.                                           *)
(***************************************************************************)
CapIds == {"A", "B", "C", "D"}

Caps ==
    [c \in CapIds |->
        CASE c = "A" -> [has_block_size |-> TRUE,  block_size |-> 16, digest_size |-> 4]
          [] c = "B" -> [has_block_size |-> TRUE,  block_size |-> 8,  digest_size |-> 4]
          [] c = "C" -> [has_block_size |-> FALSE, block_size |-> 0,  digest_size |-> 4]
          [] c = "D" -> [has_block_size |-> TRUE,  block_size |-> 16, digest_size |-> 18]]

\* the running state of a hash object that has absorbed nothing
EmptyState == [acc |-> 0, len |-> 0]

\* the weight of the byte at position i
Weight(i) == ((i * i * 7 + i * 13 + 5) % 251) + 1

\* the running state after b: each byte counts with the weight of its
\* position in everything absorbed (BagCardinality sums the function's values)
Compress(st, b) ==
    [acc |-> (st.acc + BagCardinality([j \in 1..Len(b) |->
                                          (b[j] + 1) * Weight(st.len + j)])) % 65521,
     len |-> st.len + Len(b)]

\* the digest_size bytes of a running state
Finalize(c, st) ==
    LET a == (st.acc + 257 * st.len + 7) % 65521
    IN  [i \in 1..Caps[c].digest_size |-> ((a + i) * (2 * i + 11) + (a \div 256)) % 256]

\* digest_cons(data).digest()
HashDigest(c, data) == Finalize(c, Compress(EmptyState, data))

\* hash.hexdigest(): two lowercase hex digits per byte, as digit values 0..15
Hex(b) == [i \in 1..(2 * Len(b)) |->
              IF i % 2 = 1 THEN b[(i + 1) \div 2] \div 16 ELSE b[i \div 2] % 16]

(***************************************************************************)
(* The heap of hash objects.                                               *)
(***************************************************************************)
\* the sessions: 1 is the one new() returns, 2 is a copy
SessIds == {1, 2}
\* the threads that finalize concurrently (specification SpecConc)
Threads == {1, 2}

\* room for each session's inner and outer, each thread's h and two temporaries
Refs == 1..(2 * Cardinality(SessIds) + Cardinality(Threads) + 2)
NoRef == 0

FreeCell == [alive |-> FALSE, cap |-> "A", st |-> EmptyState]

EmptyHeap == [r \in Refs |-> FreeCell]

FreshRef(heap) == CHOOSE r \in Refs : ~heap[r].alive /\ \A q \in Refs : q < r => heap[q].alive

\* digest_cons(d): a fresh hash object of the capability, having absorbed d
HashNew(heap, c, d) ==
    LET r == FreshRef(heap)
    IN  [heap |-> [heap EXCEPT ![r] = [alive |-> TRUE, cap |-> c,
                                       st |-> Compress(EmptyState, d)]],
         ref |-> r]

\* hash.update(b)
HashUpdate(heap, r, b) == [heap EXCEPT ![r].st = Compress(@, b)]

\* hash.copy(): a new object with the same running state
HashCopy(heap, r) ==
    LET n == FreshRef(heap)
    IN  [heap |-> [heap EXCEPT ![n] = [heap[r] EXCEPT !.alive = TRUE]], ref |-> n]

\* hash.digest() of the object at r; the object is left as it is
HashDigestAt(heap, r) == Finalize(heap[r].cap, heap[r].st)

\* objects no root refers to are reclaimed
Collect(heap, roots) == [r \in Refs |-> IF r \in roots THEN heap[r] ELSE FreeCell]

(***************************************************************************)
(* Inputs.                                                                 *)
(***************************************************************************)
KeyBytes(n) == [i \in 1..n |-> (i * 7 + n) % 256]

MsgBytes == {1, 2}

RECURSIVE SeqsUpTo(_)
SeqsUpTo(n) ==
    IF n = 0 THEN {<<>>}
    ELSE LET shorter == SeqsUpTo(n - 1)
         IN  shorter \cup {Append(q, b) : q \in {x \in shorter : Len(x) = n - 1}, b \in MsgBytes}

MsgData == SeqsUpTo(MaxFed)

\* an update argument: bytes, not empty
UpdateData == MsgData \ {<<>>}

\* a msg argument: None, or bytes
NoMsg == [given |-> FALSE, data |-> <<>>]
Msgs == {NoMsg} \cup {[given |-> TRUE, data |-> d] : d \in MsgData}

\* a digestmod argument: None, a callable, the name of an algorithm, or a
\* module or object with a new() constructor
NoDigestmod == [kind |-> "none", cap |-> "A"]

\* a key argument is a bytes or bytearray object, or something else (a str).
\* The key and digestmod arguments of a call: every capability with keys
\* below, at and above the block size it leads to (16 for "A" and "D"; 64
\* in new() and 8 in digest() for "B", 64 for "C"), the other kinds of
\* digestmod with a long key, and the arguments that are refused
KeyOf(n) == [isbytes |-> TRUE, data |-> KeyBytes(n)]
StrKey == [isbytes |-> FALSE, data |-> KeyBytes(3)]
Arguments ==
    {[key |-> KeyOf(n), digestmod |-> [kind |-> "callable", cap |-> "A"]] : n \in {3, 16, 17}}
        \cup {[key |-> KeyOf(n), digestmod |-> [kind |-> "callable", cap |-> "B"]]
                  : n \in {3, 64, 65}}
        \cup {[key |-> KeyOf(n), digestmod |-> [kind |-> "callable", cap |-> "C"]]
                  : n \in {64, 65}}
        \cup {[key |-> KeyOf(n), digestmod |-> [kind |-> "callable", cap |-> "D"]]
                  : n \in {16, 17}}
        \cup {[key |-> KeyOf(17), digestmod |-> [kind |-> k, cap |-> "A"]]
                  : k \in {"name", "module"}}
        \cup {[key |-> StrKey, digestmod |-> d]
                  : d \in {NoDigestmod, [kind |-> "callable", cap |-> "A"],
                           [kind |-> "name", cap |-> "A"]}}
        \cup {[key |-> KeyOf(3), digestmod |-> NoDigestmod]}

\* the names in _openssl_md_meths (line 7)
OpensslNames == {"A"}

(***************************************************************************)
(* class HMAC                                                              *)
(***************************************************************************)
AllAttrs == {"digest_cons", "digest_size", "block_size", "inner", "outer"}

NoSession ==
    [live |-> FALSE, attrs |-> {}, digest_cons |-> NoDigestmod, digest_size |-> 0,
     block_size |-> 0, inner |-> NoRef, outer |-> NoRef]

\* lines 76-80, with the two checks in the other order
CheckArgsSwapped(key, digestmod) ==
    IF digestmod.kind = "none" THEN "ValueError"
    ELSE IF ~key.isbytes THEN "TypeError"
    ELSE "ok"

\* lines 76-80: the key's type is checked first, then the digestmod
CheckArgs(key, digestmod) ==
    IF ~key.isbytes THEN "TypeError"
    ELSE IF digestmod.kind = "none" THEN "ValueError"
    ELSE "ok"

\* lines 95-108 with "blocksize <= 16" for "blocksize < 16"
ResolveBlockSizeOffByOne(heap, r) ==
    LET c == Caps[heap[r].cap]
    IN  IF c.has_block_size
        THEN IF c.block_size <= MinBlockSize
             THEN [bs |-> blocksize, warn |-> "too_small"]
             ELSE [bs |-> c.block_size, warn |-> "none"]
        ELSE [bs |-> blocksize, warn |-> "missing"]

\* lines 95-108: the block size the key is padded to, and the warning given
ResolveBlockSize(heap, r) ==
    LET c == Caps[heap[r].cap]
    IN  IF c.has_block_size
        THEN IF c.block_size < MinBlockSize
             THEN [bs |-> blocksize, warn |-> "too_small"]
             ELSE [bs |-> c.block_size, warn |-> "none"]
        ELSE [bs |-> blocksize, warn |-> "missing"]

\* lines 110-111 with "len(key) >= blocksize"
CollapseKeyOffByOne(heap, digestmod, key, bs) ==
    IF Len(key) >= bs
    THEN LET t == HashNew(heap, digestmod.cap, key) IN HashDigestAt(t.heap, t.ref)
    ELSE key

\* lines 110-111: a key longer than the block is replaced by its digest
CollapseKey(heap, digestmod, key, bs) ==
    IF Len(key) > bs
    THEN LET t == HashNew(heap, digestmod.cap, key) IN HashDigestAt(t.heap, t.ref)
    ELSE key

\* HMAC.update, lines 125-127
HMAC_update(heap, self, msg) == HashUpdate(heap, self.inner, msg)

\* HMAC.__init__, lines 26-119
HMAC_init(heap, key, msg, digestmod) ==
    LET err == CheckArgs(key, digestmod)
    IN  IF err # "ok"
        THEN [heap |-> heap, self |-> NoSession, err |-> err, warn |-> "none"]
        ELSE LET o  == HashNew(heap, digestmod.cap, <<>>)
                 i  == HashNew(o.heap, digestmod.cap, <<>>)
                 rb == ResolveBlockSize(i.heap, i.ref)
                 k  == ljust(CollapseKey(i.heap, digestmod, key.data, rb.bs), rb.bs)
                 h1 == HashUpdate(i.heap, o.ref, translate(k, trans_5C))
                 h2 == HashUpdate(h1, i.ref, translate(k, trans_36))
                 self == [live |-> TRUE, attrs |-> AllAttrs, digest_cons |-> digestmod,
                          digest_size |-> Caps[h2[i.ref].cap].digest_size,
                          block_size |-> rb.bs, inner |-> i.ref, outer |-> o.ref]
             IN  [heap |-> IF msg.given THEN HMAC_update(h2, self, msg.data) ELSE h2,
                  self |-> self, err |-> "ok", warn |-> rb.warn]

\* lines 148-153 sharing the hash objects instead of copying them
HMAC_copyShared(heap, self) ==
    [heap |-> heap,
     other |-> [live |-> TRUE, attrs |-> {"digest_cons", "digest_size", "inner", "outer"},
                digest_cons |-> self.digest_cons, digest_size |-> self.digest_size,
                block_size |-> 0, inner |-> self.inner, outer |-> self.outer]]

\* HMAC.copy, lines 129-153: block_size is not among the attributes set
HMAC_copy(heap, self) ==
    LET i == HashCopy(heap, self.inner)
        o == HashCopy(i.heap, self.outer)
    IN  [heap |-> o.heap,
         other |-> [live |-> TRUE, attrs |-> {"digest_cons", "digest_size", "inner", "outer"},
                    digest_cons |-> self.digest_cons, digest_size |-> self.digest_size,
                    block_size |-> 0, inner |-> i.ref, outer |-> o.ref]]

\* line 172 as "h = self.outer"
CurrentOuterAliased(heap, self) == [heap |-> heap, ref |-> self.outer]

\* line 172: h = self.outer.copy()
CurrentOuter(heap, self) == HashCopy(heap, self.outer)

\* lines 172-174 working on self.outer itself
HMAC_currentInPlace(heap, self) ==
    [heap |-> HashUpdate(heap, self.outer, HashDigestAt(heap, self.inner)), h |-> self.outer]

\* HMAC._current, lines 155-174
HMAC_current(heap, self) ==
    LET c == CurrentOuter(heap, self)
    IN  [heap |-> HashUpdate(c.heap, c.ref, HashDigestAt(c.heap, self.inner)), h |-> c.ref]

\* HMAC.digest, lines 176-178
HMAC_digest(heap, self) ==
    LET c == HMAC_current(heap, self)
    IN  [heap |-> c.heap, val |-> HashDigestAt(c.heap, c.h)]

\* HMAC.hexdigest, lines 180-182
HMAC_hexdigest(heap, self) ==
    LET c == HMAC_current(heap, self)
    IN  [heap |-> c.heap, val |-> Hex(HashDigestAt(c.heap, c.h))]

\* line 185 not passing msg on
newDropsMsg(heap, key, msg, digestmod) == HMAC_init(heap, key, NoMsg, digestmod)

\* new, lines 184-185
new(heap, key, msg, digestmod) == HMAC_init(heap, key, msg, digestmod)

(***************************************************************************)
(* The one-shot digest(key, msg, digest).                                  *)
(***************************************************************************)
\* _hashopenssl.hmac_digest: the native HMAC of a named algorithm
hmac_digest(key, msg, c) ==
    LET B  == Caps[c].block_size
        k0 == IF Len(key) > B THEN HashDigest(c, key) ELSE key
        k  == ljust(k0, B)
    IN  HashDigest(c, translate(k, trans_5C) \o HashDigest(c, translate(k, trans_36) \o msg))

\* digest, lines 188-253
digest(heap, openssl, key, msg, digestmod) ==
    IF openssl /\ digestmod.kind = "name" /\ digestmod.cap \in OpensslNames
    THEN IF key.isbytes
         THEN [val |-> hmac_digest(key.data, msg, digestmod.cap), err |-> "ok"]
         ELSE [val |-> <<>>, err |-> "TypeError"]
    ELSE IF digestmod.kind = "none" THEN [val |-> <<>>, err |-> "AttributeError"]
    ELSE IF ~key.isbytes THEN [val |-> <<>>, err |-> "TypeError"]
    ELSE LET i  == HashNew(heap, digestmod.cap, <<>>)
             o  == HashNew(i.heap, digestmod.cap, <<>>)
             c  == Caps[o.heap[i.ref].cap]
             bs == IF c.has_block_size THEN c.block_size ELSE blocksize
             k0 == CollapseKey(o.heap, digestmod, key.data, bs)
             k  == k0 \o ZeroTimes(bs - Len(k0))
             h1 == HashUpdate(o.heap, i.ref, translate(k, trans_36))
             h2 == HashUpdate(h1, o.ref, translate(k, trans_5C))
             h3 == HashUpdate(h2, i.ref, msg)
             h4 == HashUpdate(h3, o.ref, HashDigestAt(h3, i.ref))
         IN  [val |-> HashDigestAt(h4, o.ref), err |-> "ok"]

(***************************************************************************)
(* State.                                                                  *)
(***************************************************************************)
VARIABLES
    hashes,     \* the heap of hash objects
    sessions,   \* the HMAC objects: session 1 is constructed, the others are copies
    ghost,      \* per session: the history of the calls made on it
    refed,      \* a session was finalized and, as the next call, updated
    ret,        \* the last call's arguments and outcome
    th          \* the threads that are inside digest() or hexdigest()

vars == <<hashes, sessions, ghost, refed, ret, th>>

\* key, digestmod: what the session was built with; fed: the initial msg and
\* every update argument, in order
NoGhost == [key |-> <<>>, digestmod |-> NoDigestmod, fed |-> <<>>]

NoRet ==
    [op |-> "none", sess |-> 0, src |-> 0, val |-> <<>>, err |-> "ok", warn |-> "none",
     key |-> [isbytes |-> TRUE, data |-> <<>>], msg |-> NoMsg, digestmod |-> NoDigestmod,
     openssl |-> FALSE]

\* pc: where the thread is in _current and digest; h, d: its locals; out: what
\* its call returned; fed0: what had been fed when it entered; raced: an
\* update ran while it was inside; met: another thread was inside with it
Idle == [pc |-> "idle", sess |-> 0, hex |-> FALSE, h |-> NoRef, d |-> <<>>, out |-> <<>>,
         fed0 |-> <<>>, raced |-> FALSE, met |-> FALSE]

Inside == {"copy", "read", "upd", "fin"}

\* the hash objects some session or some thread's local h refers to
Roots(ss, tt) ==
    {ss[s].inner : s \in {x \in SessIds : ss[x].live}}
        \cup {ss[s].outer : s \in {x \in SessIds : ss[x].live}}
        \cup {tt[t].h : t \in {x \in Threads : tt[x].h # NoRef}}

Init ==
    /\ hashes = EmptyHeap
    /\ sessions = [s \in SessIds |-> NoSession]
    /\ ghost = [s \in SessIds |-> NoGhost]
    /\ refed = FALSE
    /\ ret = NoRet
    /\ th = [t \in Threads |-> Idle]

(***************************************************************************)
(* The calls, each atomic (the engine is single-threaded by contract).  A   *)
(* run starts with one call of new() or of the one-shot digest(); the      *)
(* session that new() returns is then updated, finalized and copied.       *)
(***************************************************************************)
\* s = new(key, msg, digestmod)
New(key, msg, digestmod) ==
    /\ ret.op = "none"
    /\ LET r == new(hashes, key, msg, digestmod)
       IN  /\ sessions' = IF r.err = "ok" THEN [sessions EXCEPT ![1] = r.self] ELSE sessions
           /\ hashes' = Collect(r.heap, Roots(sessions', th))
           /\ ghost' = IF r.err = "ok"
                       THEN [ghost EXCEPT ![1] = [key |-> key.data, digestmod |-> digestmod,
                                                  fed |-> msg.data]]
                       ELSE ghost
           /\ ret' = [NoRet EXCEPT !.op = "new", !.sess = IF r.err = "ok" THEN 1 ELSE 0,
                                   !.err = r.err, !.warn = r.warn,
                                   !.key = key, !.msg = msg, !.digestmod = digestmod]
    /\ UNCHANGED <<refed, th>>

\* sessions[s].update(m); a thread that is inside a finalization of s has raced
Update(s, m) ==
    /\ sessions[s].live
    /\ Len(ghost[s].fed) + Len(m) <= MaxFed
    /\ hashes' = HMAC_update(hashes, sessions[s], m)
    /\ ghost' = [ghost EXCEPT ![s].fed = @ \o m]
    /\ refed' = (refed \/ (ret.op \in {"digest", "hexdigest"} /\ ret.sess = s))
    /\ ret' = [NoRet EXCEPT !.op = "update", !.sess = s, !.msg = [given |-> TRUE, data |-> m]]
    /\ th' = [t \in Threads |->
                 IF th[t].pc \in Inside /\ th[t].sess = s
                 THEN [th[t] EXCEPT !.raced = TRUE] ELSE th[t]]
    /\ UNCHANGED sessions

\* sessions[s].digest()
Digest(s) ==
    /\ sessions[s].live
    /\ LET r == HMAC_digest(hashes, sessions[s])
       IN  /\ hashes' = Collect(r.heap, Roots(sessions, th))
           /\ ret' = [NoRet EXCEPT !.op = "digest", !.sess = s, !.val = r.val]
    /\ UNCHANGED <<sessions, ghost, refed, th>>

\* sessions[s].hexdigest()
HexDigest(s) ==
    /\ sessions[s].live
    /\ LET r == HMAC_hexdigest(hashes, sessions[s])
       IN  /\ hashes' = Collect(r.heap, Roots(sessions, th))
           /\ ret' = [NoRet EXCEPT !.op = "hexdigest", !.sess = s, !.val = r.val]
    /\ UNCHANGED <<sessions, ghost, refed, th>>

\* sessions[n] = sessions[s].copy(), n the next unused session
Copy(s) ==
    /\ sessions[s].live
    /\ \E n \in SessIds :
        /\ ~sessions[n].live
        /\ \A q \in SessIds : q < n => sessions[q].live
        /\ LET r == HMAC_copy(hashes, sessions[s])
           IN  /\ sessions' = [sessions EXCEPT ![n] = r.other]
               /\ hashes' = Collect(r.heap, Roots(sessions', th))
               /\ ghost' = [ghost EXCEPT ![n] = ghost[s]]
               /\ ret' = [NoRet EXCEPT !.op = "copy", !.sess = n, !.src = s]
    /\ UNCHANGED <<refed, th>>

\* digest(key, msg, digestmod), the one-shot function; openssl says whether
\* "import _hashlib" succeeded (lines 1-7)
OneShot(key, msg, digestmod, openssl) ==
    /\ ret.op = "none"
    /\ LET r == digest(hashes, openssl, key, msg, digestmod)
       IN  ret' = [NoRet EXCEPT !.op = "oneshot", !.val = r.val, !.err = r.err, !.key = key,
                                !.openssl = openssl,
                                !.msg = [given |-> TRUE, data |-> msg],
                                !.digestmod = digestmod]
    /\ UNCHANGED <<hashes, sessions, ghost, refed, th>>

Next ==
    \/ \E a \in Arguments, msg \in Msgs : New(a.key, msg, a.digestmod)
    \/ \E s \in SessIds, m \in UpdateData : Update(s, m)
    \/ \E s \in SessIds : Digest(s)
    \/ \E s \in SessIds : HexDigest(s)
    \/ \E s \in SessIds : Copy(s)
    \/ \E a \in Arguments, msg \in MsgData, openssl \in BOOLEAN :
          OneShot(a.key, msg, a.digestmod, openssl)

Spec == Init /\ [][Next]_vars

(***************************************************************************)
(* Finalizations run by several threads on one session, a step at a time:  *)
(* the statements of _current and digest (lines 172-178) interleave.       *)
(***************************************************************************)
\* thread t calls sessions[s].digest() or, with hex, sessions[s].hexdigest()
FinBegin(t, s, hex) ==
    /\ th[t].pc \in {"idle", "done"}
    /\ sessions[s].live
    /\ th' = [u \in Threads |->
                 IF u = t
                 THEN [Idle EXCEPT !.pc = "copy", !.sess = s, !.hex = hex,
                                   !.fed0 = ghost[s].fed,
                                   !.met = \E v \in Threads : th[v].pc \in Inside]
                 ELSE IF th[u].pc \in Inside THEN [th[u] EXCEPT !.met = TRUE]
                 ELSE th[u]]
    /\ UNCHANGED <<hashes, sessions, ghost, refed, ret>>

\* line 172: h = self.outer.copy()
FinCopyOuter(t) ==
    /\ th[t].pc = "copy"
    /\ LET c == CurrentOuter(hashes, sessions[th[t].sess])
       IN  /\ hashes' = c.heap
           /\ th' = [th EXCEPT ![t].h = c.ref, ![t].pc = "read"]
    /\ UNCHANGED <<sessions, ghost, refed, ret>>

\* line 173, the argument: self.inner.digest()
FinReadInner(t) ==
    /\ th[t].pc = "read"
    /\ th' = [th EXCEPT ![t].d = HashDigestAt(hashes, sessions[th[t].sess].inner),
                        ![t].pc = "upd"]
    /\ UNCHANGED <<hashes, sessions, ghost, refed, ret>>

\* line 173, the call: h.update(...)
FinUpdate(t) ==
    /\ th[t].pc = "upd"
    /\ hashes' = HashUpdate(hashes, th[t].h, th[t].d)
    /\ th' = [th EXCEPT ![t].pc = "fin"]
    /\ UNCHANGED <<sessions, ghost, refed, ret>>

\* lines 178 and 182: return h.digest() or h.hexdigest(); h is dropped
FinEnd(t) ==
    /\ th[t].pc = "fin"
    /\ th' = [th EXCEPT ![t].out = IF th[t].hex THEN Hex(HashDigestAt(hashes, th[t].h))
                                   ELSE HashDigestAt(hashes, th[t].h),
                        ![t].h = NoRef, ![t].d = <<>>, ![t].pc = "done"]
    /\ hashes' = Collect(hashes, Roots(sessions, th'))
    /\ UNCHANGED <<sessions, ghost, refed, ret>>

ArgumentsConc ==
    {a \in Arguments : a.digestmod = [kind |-> "callable", cap |-> "A"] /\ a.key.isbytes}

NextConc ==
    \/ \E a \in ArgumentsConc : New(a.key, NoMsg, a.digestmod)
    \/ \E m \in UpdateData : Update(1, m)
    \/ \E t \in Threads, hex \in BOOLEAN : FinBegin(t, 1, hex)
    \/ \E t \in Threads : FinCopyOuter(t)
    \/ \E t \in Threads : FinReadInner(t)
    \/ \E t \in Threads : FinUpdate(t)
    \/ \E t \in Threads : FinEnd(t)

SpecConc == Init /\ [][NextConc]_vars

(***************************************************************************)
(* What the claims speak of.                                               *)
(***************************************************************************)
Live == {s \in SessIds : sessions[s].live}

\* s.digest() on the state as it is, the session left alone
CurrentTag(s) == HMAC_digest(hashes, sessions[s]).val

\* new(key, None, digestmod), update(msg), digest(): the generic path
GenericTag(key, msg, digestmod) ==
    LET n == new(EmptyHeap, key, NoMsg, digestmod)
    IN  HMAC_digest(HMAC_update(n.heap, n.self, msg), n.self).val

\* new(key, msg, digestmod).digest(): the whole message given at construction
BatchTag(key, msg, digestmod) ==
    LET n == new(EmptyHeap, [isbytes |-> TRUE, data |-> key],
                 [given |-> TRUE, data |-> msg], digestmod)
    IN  HMAC_digest(n.heap, n.self).val

\* the tag of msg under the key material k, zero-padded to bs and used as it is
TagUnderKey(c, k, bs, msg) ==
    LET kp == k \o ZeroTimes(bs - Len(k))
    IN  HashDigest(c, translate(kp, trans_5C) \o HashDigest(c, translate(kp, trans_36) \o msg))

\* C1: the one-shot digest(k, m, A) returns the tag that new(k, None, A),
\* update(m), digest() returns, for every capability A.
C1_OneShotEqualsGeneric ==
    (ret.op = "oneshot" /\ ret.err = "ok")
        => ret.val = GenericTag(ret.key, ret.msg.data, ret.digestmod)

C7_BlockSizeResolution ==
    (ret.op = "new" /\ ret.err = "ok") =>
        LET c == Caps[ret.digestmod.cap]
            declared == c.has_block_size /\ c.block_size >= 16
        IN  /\ sessions[1].live /\ sessions[1].attrs = AllAttrs
            /\ sessions[1].block_size = IF declared THEN c.block_size ELSE 64
            /\ (ret.warn # "none") <=> ~declared
            /\ ~c.has_block_size => ret.warn = "missing"
            /\ (c.has_block_size /\ c.block_size < 16) => ret.warn = "too_small"
            /\ Len(CurrentTag(1)) = c.digest_size

\* a session built, with a warning, on a capability whose block_size is below 16
C7_Witness ==
    /\ ret.op = "new" /\ ret.err = "ok" /\ ret.warn = "too_small"
    /\ sessions[1].live /\ sessions[1].block_size = 64

\* C9: the key material fed to inner and outer at construction is exactly
\* block_size bytes long, for every key and every capability.
C9_KeyMaterialIsOneBlock ==
    (ret.op = "new" /\ ret.err = "ok" /\ ~ret.msg.given) =>
        /\ hashes[sessions[1].outer].st.len = sessions[1].block_size
        /\ hashes[sessions[1].inner].st.len = sessions[1].block_size

\* C10: the session copy() returns has every attribute of its source, with
\* the same digest_cons, digest_size and block_size.
C10_CopyCarriesEveryField ==
    ret.op = "copy" =>
        /\ sessions[ret.sess].attrs = sessions[ret.src].attrs
        /\ sessions[ret.sess].digest_cons = sessions[ret.src].digest_cons
        /\ sessions[ret.sess].digest_size = sessions[ret.src].digest_size
        /\ sessions[ret.sess].block_size = sessions[ret.src].block_size

\* C2: the tag of a session depends only on the concatenation, in order, of
\* the initial msg and the update arguments: it is the tag of a session that
\* was given the whole concatenation at construction.
C2_StreamingEqualsBatch ==
    \A s \in Live :
        CurrentTag(s) = BatchTag(ghost[s].key, ghost[s].fed, ghost[s].digestmod)

\* session 1 was fed <<1>> by one call and <<2>> by the next, an update
C2_Witness ==
    /\ sessions[1].live /\ ret.op = "update" /\ ret.sess = 1
    /\ ret.msg.data = <<2>> /\ ghost[1].fed = <<1, 2>>

\* C3: digest() and hexdigest() leave the session's inner and outer hash
\* objects as they were: whatever finalizations have been made, the objects
\* hold what a session built with everything fed so far holds, and every
\* finalization returns the tag of everything fed so far (so two in a row
\* return the same value).
C3_FinalizationLeavesSession ==
    /\ \A s \in Live :
        LET g == ghost[s]
            n == new(EmptyHeap, [isbytes |-> TRUE, data |-> g.key],
                     [given |-> TRUE, data |-> g.fed], g.digestmod)
        IN  /\ hashes[sessions[s].inner] = n.heap[n.self.inner]
            /\ hashes[sessions[s].outer] = n.heap[n.self.outer]
    /\ ret.op \in {"digest", "hexdigest"} =>
        LET g == ghost[ret.sess]
            t == BatchTag(g.key, g.fed, g.digestmod)
        IN  ret.val = IF ret.op = "digest" THEN t ELSE Hex(t)

\* a digest() of session 1, the only one, which was finalized, then updated, before
C3_Witness ==
    /\ ret.op = "digest" /\ ret.sess = 1 /\ ~sessions[2].live
    /\ refed /\ Len(ghost[1].fed) = 2

\* C4: a session and its copy evolve independently: the tag of each is the
\* tag of what was fed to it, whatever was fed to the other, and the two
\* have the same tag whenever the same data has been fed to both.
C4_CopyIndependence ==
    \A s, t \in Live :
        s # t =>
            /\ CurrentTag(t) = BatchTag(ghost[t].key, ghost[t].fed, ghost[t].digestmod)
            /\ ghost[s].fed = ghost[t].fed => CurrentTag(s) = CurrentTag(t)

\* the copy has just been updated, which makes what it was fed what its source
\* was fed: both were updated after the copy was made
C4_Witness ==
    /\ sessions[1].live /\ sessions[2].live
    /\ ret.op = "update" /\ ret.sess = 2
    /\ ghost[2].fed = <<1, 2>> /\ ghost[1].fed = <<1, 2>>

C8_ConcurrentFinalizations ==
    /\ \A s \in Live :
        LET g == ghost[s]
            n == new(EmptyHeap, [isbytes |-> TRUE, data |-> g.key],
                     [given |-> TRUE, data |-> g.fed], g.digestmod)
        IN  /\ hashes[sessions[s].inner] = n.heap[n.self.inner]
            /\ hashes[sessions[s].outer] = n.heap[n.self.outer]
    /\ \A t \in Threads :
        (th[t].pc = "done" /\ ~th[t].raced) =>
            LET g   == ghost[th[t].sess]
                tag == BatchTag(g.key, th[t].fed0, g.digestmod)
            IN  th[t].out = IF th[t].hex THEN Hex(tag) ELSE tag

\* two digest() calls that were inside together have both returned, no update
\* having run into either
C8_Witness ==
    /\ \A t \in {1, 2} :
        th[t].pc = "done" /\ th[t].met /\ ~th[t].raced /\ ~th[t].hex
    /\ Len(ghost[1].fed) = 1

====
